---- MODULE Spec2Model ----
(***************************************************************************)
(* State model of the scheduling dashboard's client runtime:               *)
(*   - the simulation store (the reconciler: updateSimulationStep & co.),  *)
(*   - the algorithm-results store (addResult / clearResults),             *)
(*   - the socket module (initializeSocket / cleanupSocket) and the        *)
(*     Dashboard's subscription handlers,                                  *)
(*   - the one-shot batch path of SimulationControls,                      *)
(*   - the client commands of the streaming channel and the controls that  *)
(*     issue them.                                                         *)
(* JavaScript values are tagged records, objects are records that hold     *)
(* only the keys that are present, arrays are sequences.                   *)
(***************************************************************************)
EXTENDS Integers, Sequences, FiniteSets, TLC

VARIABLES
    simulation,    \* useSimulationStore().simulation
    results,       \* useAlgorithmResultsStore().results
    socket,        \* socket.ts: the module variable `socket` (0 is null)
    connected,     \* the sockets created by io() and not yet disconnected
    created,       \* how many sockets io() has created
    algorithmRef,  \* Dashboard: algorithmRef.current
    loading,       \* SimulationControls: the loading flag of the batch run
    error,         \* SimulationControls: the error message shown (or Null)
    request,       \* the batch request in flight (its closure), or Null
    insights,      \* AlgorithmComparisonChart: the insights memo
    simSpeed,      \* SimulationControls: the tick speed chosen (ms per step)
    emitted,       \* the messages the last operation emitted on the channel
    runs,          \* the runs started last, and whether a reset followed
    nops,          \* operations performed so far
    last,          \* the operation performed last, with its input
    prev           \* the stores as they were before that operation

vars == <<simulation, results, socket, connected, created, algorithmRef,
          loading, error, request, insights, simSpeed, emitted, runs, nops,
          last, prev>>

---------------------------------------------------------------------------
(* Bounds of the exploration.                                              *)

\* operations explored from the initial state, whole client
MaxOps == 5
\* operations explored from the initial state, simulation store alone
MaxStoreOps == 2
\* operations explored from the initial state, results store alone
MaxResultOps == 4
\* operations explored from the initial state, comparison chart
MaxRunOps == 3

---------------------------------------------------------------------------
(* JavaScript values.                                                      *)

Undefined == [t |-> "undefined"]
Null == [t |-> "null"]
NaN == [t |-> "NaN"]
Num(n) == [t |-> "number", n |-> n]
Str(s) == [t |-> "string", s |-> s]
Arr(a) == [t |-> "array", a |-> a]
EmptyObj == [k \in {} |-> Undefined]

\* a Process object; id "" stands for a missing or empty id
Proc(id, name) == [t |-> "process", id |-> id, name |-> name]

\* o.k
Get(o, k) == IF k \in DOMAIN o THEN o[k] ELSE Undefined

\* o.k1?.k2
OptGet(o, k1, k2) == IF k1 \in DOMAIN o THEN Get(o[k1], k2) ELSE Undefined

\* v is an object (a record of its keys), not a tagged primitive
IsObject(v) == "t" \notin DOMAIN v

\* Array.isArray(v)
IsArray(v) == ~IsObject(v) /\ v.t = "array"

\* v is null or undefined (the test of ?? and ?.)
Nullish(v) == ~IsObject(v) /\ v.t \in {"undefined", "null"}

\* the truth value of v in a condition
Truthy(v) ==
    \/ IsObject(v)
    \/ /\ v.t \notin {"undefined", "null", "NaN"}
       /\ v # Num(0)
       /\ v # Str("")

\* v.toString() for a number or a string
JsToString(v) ==
    CASE v.t = "number" -> Str(ToString(v.n))
      [] v.t = "NaN" -> Str("NaN")
      [] OTHER -> v

\* v?.toString()
OptToString(v) == IF Nullish(v) THEN Undefined ELSE JsToString(v)

\* a ?? b
Coalesce(a, b) == IF Nullish(a) THEN b ELSE a

\* a || b
OrElse(a, b) == IF Truthy(a) THEN a ELSE b

---------------------------------------------------------------------------
(* The simulation store.                                                   *)

initialState ==
    [ currentTime |-> Num(0),
      processes |-> << >>,
      queues |-> [ readyQueue |-> << >>,
                   runningProcess |-> Null,
                   waitingQueue |-> << >>,
                   completedProcesses |-> << >> ],
      statistics |-> [ cpuUtilization |-> Str("0.00"),
                       avgWaitingTime |-> Str("0.00"),
                       avgTurnaroundTime |-> Str("0.00"),
                       avgResponseTime |-> Str("0.00"),
                       throughput |-> Str("0.00") ],
      detailedMetrics |-> EmptyObj,
      algorithm |-> "FCFS",
      algorithmConfig |-> EmptyObj,
      status |-> "idle" ]

\* mutant of resetSimulation: the selected algorithm survives the reset
resetSimulationKeepAlgorithm(sim) ==
    [initialState EXCEPT !.algorithm = sim.algorithm,
                         !.algorithmConfig = sim.algorithmConfig]

resetSimulation(sim) == initialState

\* mutant of setAlgorithm: a selection made while not idle is ignored
setAlgorithmIdleOnly(sim, algorithm, config) ==
    IF sim.status = "idle"
    THEN [sim EXCEPT !.algorithm = algorithm, !.algorithmConfig = config]
    ELSE sim

setAlgorithm(sim, algorithm, config) ==
    [sim EXCEPT !.algorithm = algorithm, !.algorithmConfig = config]

setProcesses(sim, processes) == [sim EXCEPT !.processes = processes]

\* mutant of setStatus: a completed simulation keeps its status
setStatusTerminal(sim, status) ==
    IF sim.status = "completed" THEN sim ELSE [sim EXCEPT !.status = status]

setStatus(sim, status) == [sim EXCEPT !.status = status]

ArrayFields == {"processes", "readyQueue", "waitingQueue", "completedProcesses"}
QueueFields == {"readyQueue", "runningProcess", "waitingQueue", "completedProcesses"}
StatFields ==
    {"cpuUtilization", "avgWaitingTime", "avgTurnaroundTime", "avgResponseTime",
     "throughput"}
DetailKeys ==
    {"contextSwitches", "cpuIdleTime", "cpuIdlePercentage", "readyQueueLength",
     "waitingQueueLength", "algorithmType", "tickSpeed"}

\* the value a step payload carries for a snapshot field (Undefined: none)
Incoming(data, f) ==
    CASE f = "currentTime" -> Get(data, "currentTime")
      [] f = "processes" -> Get(data, "processes")
      [] f \in QueueFields -> OptGet(data, "queues", f)
      [] OTHER -> OptGet(data, "statistics", f)

\* the places of a payload whose process has no id: each draws a random id
Idless(data) ==
    UNION { { <<f, i>> : i \in { j \in 1..Len(Incoming(data, f).a) :
                                   Incoming(data, f).a[j].id = "" } } :
            f \in { g \in ArrayFields : IsArray(Incoming(data, g)) } }
    \cup
    { <<f, 1>> : f \in { g \in {"runningProcess"} :
                            /\ Incoming(data, g).t = "process"
                            /\ Incoming(data, g).id = "" } }

\* the ids `process-${Math.random().toString(36).substring(2, 9)}` can yield
SynthIds == {"process-k3x", "process-9qa"}

\* mutant of mapIds: an element without an id is stored as it came
mapIdsNoSynthesis(arr, f, rnd) == arr

\* arr.map(p => ({...p, id: p.id || `process-...`}))
mapIds(arr, f, rnd) ==
    [ i \in 1..Len(arr) |->
        IF arr[i].id # "" THEN arr[i] ELSE [arr[i] EXCEPT !.id = rnd[<<f, i>>]] ]

\* data.queues.readyQueue.map is called on a value that has no map
stepThrows(data) ==
    /\ Truthy(Incoming(data, "readyQueue"))
    /\ ~IsArray(Incoming(data, "readyQueue"))

\* mutant of safeProcesses: the incoming list is appended to the stored one
safeProcessesAppend(sim, data, rnd) ==
    IF IsArray(Incoming(data, "processes"))
    THEN sim.processes \o mapIds(Incoming(data, "processes").a, "processes", rnd)
    ELSE sim.processes

safeProcesses(sim, data, rnd) ==
    IF IsArray(Incoming(data, "processes"))
    THEN mapIds(Incoming(data, "processes").a, "processes", rnd)
    ELSE sim.processes

safeReadyQueue(sim, data, rnd) ==
    IF Truthy(Incoming(data, "readyQueue"))
    THEN mapIds(Incoming(data, "readyQueue").a, "readyQueue", rnd)
    ELSE sim.queues.readyQueue

safeWaitingQueue(sim, data, rnd) ==
    IF IsArray(Incoming(data, "waitingQueue"))
    THEN mapIds(Incoming(data, "waitingQueue").a, "waitingQueue", rnd)
    ELSE sim.queues.waitingQueue

safeCompletedProcesses(sim, data, rnd) ==
    IF IsArray(Incoming(data, "completedProcesses"))
    THEN mapIds(Incoming(data, "completedProcesses").a, "completedProcesses", rnd)
    ELSE sim.queues.completedProcesses

safeRunningProcess(sim, data, rnd) ==
    IF Truthy(Incoming(data, "runningProcess"))
    THEN IF Incoming(data, "runningProcess").id # ""
         THEN Incoming(data, "runningProcess")
         ELSE [Incoming(data, "runningProcess") EXCEPT !.id = rnd[<<"runningProcess", 1>>]]
    ELSE sim.queues.runningProcess

\* data.statistics?.f?.toString() ?? prev.simulation.statistics.f
mergeStat(sim, data, f) ==
    Coalesce(OptToString(Incoming(data, f)), sim.statistics[f])

\* the detailed metrics a payload's statistics carry
extractDetailed(data) ==
    [ k \in {k2 \in DetailKeys : OptGet(data, "statistics", k2) # Undefined} |->
        data.statistics[k] ]

mergeDetailed(sim, data) ==
    IF DOMAIN extractDetailed(data) # {}
    THEN extractDetailed(data)
    ELSE sim.detailedMetrics

\* mutant of mergeCurrentTime: an omitted currentTime falls back to 0
mergeCurrentTimeReset(sim, data) == Coalesce(Get(data, "currentTime"), Num(0))

mergeCurrentTime(sim, data) == Coalesce(Get(data, "currentTime"), sim.currentTime)

\* mutant of updateSimulationStep: the payload is spread over the snapshot, so
\* a status it carries is stored
updateSimulationStepSpread(sim, data, rnd) ==
    IF stepThrows(data)
    THEN sim
    ELSE [ sim EXCEPT
             !.status = IF Get(data, "status") # Undefined
                        THEN Get(data, "status").s ELSE sim.status,
             !.currentTime = mergeCurrentTime(sim, data),
             !.processes = safeProcesses(sim, data, rnd),
             !.detailedMetrics = mergeDetailed(sim, data) ]

\* the snapshot updateSimulationStep stores; when the updater throws, zustand
\* keeps the previous snapshot
updateSimulationStep(sim, data, rnd) ==
    IF stepThrows(data)
    THEN sim
    ELSE [ sim EXCEPT
             !.currentTime = mergeCurrentTime(sim, data),
             !.processes = safeProcesses(sim, data, rnd),
             !.queues = [ readyQueue |-> safeReadyQueue(sim, data, rnd),
                          runningProcess |-> safeRunningProcess(sim, data, rnd),
                          waitingQueue |-> safeWaitingQueue(sim, data, rnd),
                          completedProcesses |-> safeCompletedProcesses(sim, data, rnd) ],
             !.statistics = [ f \in StatFields |-> mergeStat(sim, data, f) ],
             !.detailedMetrics = mergeDetailed(sim, data) ]

---------------------------------------------------------------------------
(* The algorithm-results store.                                            *)

\* state.results.findIndex(r => r.algorithm === algorithm); 0 stands for -1
findIndex(rs, algorithm) ==
    IF \E i \in 1..Len(rs) : rs[i].algorithm = algorithm
    THEN CHOOSE i \in 1..Len(rs) :
            /\ rs[i].algorithm = algorithm
            /\ \A j \in 1..(i - 1) : rs[j].algorithm # algorithm
    ELSE 0

\* mutant of addResult: always appends
addResultAppend(rs, result) == Append(rs, result)

\* mutant of addResult: drops the old entry and appends the new one
addResultMoveToEnd(rs, result) ==
    SelectSeq(rs, LAMBDA r : r.algorithm # result.algorithm) \o <<result>>

addResult(rs, result) ==
    IF findIndex(rs, result.algorithm) # 0
    THEN [rs EXCEPT ![findIndex(rs, result.algorithm)] = result]
    ELSE Append(rs, result)

\* mutant of clearResults: the oldest result survives
clearResultsKeepFirst(rs) == IF rs = << >> THEN << >> ELSE <<rs[1]>>

clearResults(rs) == << >>

---------------------------------------------------------------------------
(* The comparison chart: chartData and the insights memo.  Metric values   *)
(* are kept in hundredths (85.00 is 8500); a score is an exact fraction.   *)

\* the decimal strings parseFloat meets, with their value in hundredths
FloatStrings ==
    { <<"0", 0>>, <<"0.40", 40>>, <<"0.50", 50>>, <<"1.00", 100>>,
      <<"1.50", 150>>, <<"2.00", 200>>, <<"3.00", 300>>, <<"5.00", 500>>,
      <<"7.50", 750>>, <<"10.00", 1000>>, <<"15.00", 1500>>,
      <<"20.00", 2000>>, <<"50.00", 5000>>, <<"65.00", 6500>>,
      <<"80.00", 8000>>, <<"85.00", 8500>> }

\* parseFloat(v), in hundredths
parseFloat(v) ==
    CASE v.t = "number" -> v.n * 100
      [] v.t = "string" /\ (\E e \in FloatStrings : e[1] = v.s) ->
            (CHOOSE e \in FloatStrings : e[1] = v.s)[2]
      [] OTHER -> NaN

\* algorithmNames[algorithm] || algorithm
getAlgorithmFullName(algorithm) ==
    CASE algorithm = "FCFS" -> "First-Come, First-Served"
      [] algorithm = "SJF" -> "Shortest Job First"
      [] algorithm = "SRTF" -> "Shortest Remaining Time First"
      [] algorithm = "RR" -> "Round Robin"
      [] algorithm = "PRIORITY" -> "Priority (Non-preemptive)"
      [] algorithm = "PRIORITY_P" -> "Priority (Preemptive)"
      [] algorithm = "RANDOM" -> "Random"
      [] OTHER -> algorithm

\* the default metrics of AlgorithmComparisonChart, in their order
metrics ==
    <<"cpuUtilization", "avgWaitingTime", "avgTurnaroundTime", "avgResponseTime",
      "throughput">>

\* parseFloat(result.statistics[key] || '0')
chartValue(result, key) ==
    parseFloat(OrElse(Get(result.statistics, key), Str("0")))

\* one item of chartData; throughput is scaled by 100
chartItem(result) ==
    [ id |-> result.id,
      algorithm |-> result.algorithm,
      algorithmName |-> getAlgorithmFullName(result.algorithm),
      cpuUtilization |-> chartValue(result, "cpuUtilization"),
      avgWaitingTime |-> chartValue(result, "avgWaitingTime"),
      avgTurnaroundTime |-> chartValue(result, "avgTurnaroundTime"),
      avgResponseTime |-> chartValue(result, "avgResponseTime"),
      throughput |-> chartValue(result, "throughput") * 100 ]

\* results.map(...).filter(item => item !== null)
chartData(rs) ==
    LET valid == SelectSeq(rs, LAMBDA r : Truthy(Get(r, "statistics")))
    IN  [ i \in 1..Len(valid) |-> chartItem(valid[i]) ]

\* mutant of isLowerBetter: every metric is taken as higher-is-better
isLowerBetterNever(key) == FALSE

isLowerBetter(key) ==
    key \in {"avgWaitingTime", "avgTurnaroundTime", "avgResponseTime"}

\* mutant of bestScan: a run that ties with the best replaces it
RECURSIVE bestScanLastWins(_, _, _, _)
bestScanLastWins(cd, key, i, best) ==
    IF i > Len(cd)
    THEN best
    ELSE IF isLowerBetter(key)
         THEN bestScanLastWins(cd, key, i + 1,
                               IF cd[i][key] <= cd[best][key] THEN i ELSE best)
         ELSE bestScanLastWins(cd, key, i + 1,
                               IF cd[i][key] >= cd[best][key] THEN i ELSE best)

\* chartData.forEach(algo => ...): the index of bestAlgo once the scan has
\* reached item i, bestValue being the value of the item at `best`
RECURSIVE bestScan(_, _, _, _)
bestScan(cd, key, i, best) ==
    IF i > Len(cd)
    THEN best
    ELSE IF isLowerBetter(key)
         THEN bestScan(cd, key, i + 1, IF cd[i][key] < cd[best][key] THEN i ELSE best)
         ELSE bestScan(cd, key, i + 1, IF cd[i][key] > cd[best][key] THEN i ELSE best)

bestAlgorithms(cd) ==
    [ key \in { metrics[k] : k \in 1..Len(metrics) } |->
        [ algorithm |-> cd[bestScan(cd, key, 1, 1)].algorithmName,
          value |-> cd[bestScan(cd, key, 1, 1)][key] ] ]

\* exact fractions n / d with d > 0, in lowest terms
RECURSIVE GCD(_, _)
GCD(a, b) == IF b = 0 THEN a ELSE GCD(b, a % b)

Abs(n) == IF n < 0 THEN -n ELSE n

Frac(n, d) ==
    LET g == GCD(Abs(n), d)
    IN  [n |-> n \div g, d |-> d \div g]

FracAdd(x, y) == Frac(x.n * y.d + y.n * x.d, x.d * y.d)

FracLess(x, y) == x.n * y.d < y.n * x.d

\* Math.min(...numericValues), Math.max(...numericValues)
minValue(cd, key) ==
    CHOOSE v \in { cd[i][key] : i \in 1..Len(cd) } :
        \A i \in 1..Len(cd) : v <= cd[i][key]

maxValue(cd, key) ==
    CHOOSE v \in { cd[i][key] : i \in 1..Len(cd) } :
        \A i \in 1..Len(cd) : v >= cd[i][key]

range(cd, key) == maxValue(cd, key) - minValue(cd, key)

\* mutant of normalizedValue: the minimum is not subtracted from the value
normalizedValueUnshifted(cd, key, value) ==
    IF isLowerBetter(key)
    THEN FracAdd(Frac(1, 1), Frac(-value, range(cd, key)))
    ELSE Frac(value, range(cd, key))

\* isLowerBetter ? 1 - ((value - minValue) / range) : (value - minValue) / range
normalizedValue(cd, key, value) ==
    IF isLowerBetter(key)
    THEN FracAdd(Frac(1, 1), Frac(-(value - minValue(cd, key)), range(cd, key)))
    ELSE Frac(value - minValue(cd, key), range(cd, key))

\* mutant of contribution: a metric on which all runs are equal counts 1
contributionDegenerateOne(cd, key, value) ==
    IF range(cd, key) = 0 THEN Frac(1, 1) ELSE normalizedValue(cd, key, value)

\* what one metric adds to a run's score: nothing when range === 0
contribution(cd, key, value) ==
    IF range(cd, key) = 0 THEN Frac(0, 1) ELSE normalizedValue(cd, key, value)

\* metrics.forEach(metric => { ... score += normalizedValue }), up to metric k
RECURSIVE scoreUpTo(_, _, _)
scoreUpTo(cd, algo, k) ==
    IF k = 0
    THEN Frac(0, 1)
    ELSE FracAdd(scoreUpTo(cd, algo, k - 1),
                 contribution(cd, metrics[k], algo[metrics[k]]))

weightedScore(cd, algo) ==
    [ algorithm |-> algo.algorithm,
      algorithmName |-> algo.algorithmName,
      score |-> scoreUpTo(cd, algo, Len(metrics)) ]

\* the stable sort's step: x goes behind every item whose score is not
\* smaller than its own
RECURSIVE insertSorted(_, _)
insertSorted(sorted, x) ==
    IF sorted = << >>
    THEN <<x>>
    ELSE IF FracLess(Head(sorted).score, x.score)
         THEN <<x>> \o sorted
         ELSE <<Head(sorted)>> \o insertSorted(Tail(sorted), x)

\* mutant of sortScores: the scores are left in insertion order
sortScoresNone(ws) == ws

\* weightedScores.sort((a, b) => b.score - a.score): stable, descending
RECURSIVE sortScores(_)
sortScores(ws) ==
    IF ws = << >>
    THEN << >>
    ELSE insertSorted(sortScores(SubSeq(ws, 1, Len(ws) - 1)), ws[Len(ws)])

\* mutant of insightsMemo: a single run is enough
insightsMemoFromOne(cd) ==
    IF Len(cd) < 1
    THEN Null
    ELSE LET ws == sortScores([ i \in 1..Len(cd) |-> weightedScore(cd, cd[i]) ])
         IN  [ bestAlgorithms |-> bestAlgorithms(cd),
               overallBest |-> ws[1],
               weightedScores |-> ws ]

\* the useMemo body of `insights`
insightsMemo(cd) ==
    IF Len(cd) < 2
    THEN Null
    ELSE LET ws == sortScores([ i \in 1..Len(cd) |-> weightedScore(cd, cd[i]) ])
         IN  [ bestAlgorithms |-> bestAlgorithms(cd),
               overallBest |-> ws[1],
               weightedScores |-> ws ]

\* the Overall Score shown for an algorithm: score / metrics.length * 100
overallScore(ins, algorithm) ==
    IF \E i \in 1..Len(ins.weightedScores) : ins.weightedScores[i].algorithm = algorithm
    THEN LET s == (CHOOSE i \in 1..Len(ins.weightedScores) :
                      /\ ins.weightedScores[i].algorithm = algorithm
                      /\ \A j \in 1..(i - 1) :
                            ins.weightedScores[j].algorithm # algorithm)
         IN  Frac(ins.weightedScores[s].score.n * 100,
                  ins.weightedScores[s].score.d * Len(metrics))
    ELSE Frac(0, 1)

---------------------------------------------------------------------------
(* The socket module.  A socket is the number io() gave it; it delivers    *)
(* events to its listeners from its creation until disconnect().           *)

\* mutant of initializeSocket: the old socket is not disconnected
initializeSocketNoDisconnect(sock, conn, n) ==
    [ socket |-> n + 1, connected |-> conn \cup {n + 1}, created |-> n + 1 ]

\* the module state after initializeSocket(...)
initializeSocket(sock, conn, n) ==
    [ socket |-> n + 1,
      connected |-> (IF sock # 0 THEN conn \ {sock} ELSE conn) \cup {n + 1},
      created |-> n + 1 ]

\* mutant of cleanupSocket: the variable is nulled, the socket not disconnected
cleanupSocketNoDisconnect(sock, conn, n) ==
    [ socket |-> 0, connected |-> conn, created |-> n ]

\* the module state after cleanupSocket()
cleanupSocket(sock, conn, n) ==
    IF sock # 0
    THEN [ socket |-> 0, connected |-> conn \ {sock}, created |-> n ]
    ELSE [ socket |-> sock, connected |-> conn, created |-> n ]

\* what a command that found no socket leaves behind: it threw
NoSocket == [ threw |-> TRUE, emitted |-> << >> ]

\* socket.emit(event) on socket sock, the command returning normally
Emit(msg) == [ threw |-> FALSE, emitted |-> <<msg>> ]

startSimulation(sock, algorithm, processes, stepInterval, config) ==
    IF sock = 0
    THEN NoSocket
    ELSE Emit([ event |-> "start-simulation", sock |-> sock,
                algorithm |-> algorithm, processes |-> processes,
                stepInterval |-> stepInterval, config |-> config ])

\* mutant of pauseSimulation: the missing socket is not checked
pauseSimulationUnchecked(sock) ==
    Emit([event |-> "pause-simulation", sock |-> sock])

pauseSimulation(sock) ==
    IF sock = 0
    THEN NoSocket
    ELSE Emit([event |-> "pause-simulation", sock |-> sock])

resumeSimulation(sock) ==
    IF sock = 0
    THEN NoSocket
    ELSE Emit([event |-> "resume-simulation", sock |-> sock])

stepSimulation(sock) ==
    IF sock = 0
    THEN NoSocket
    ELSE Emit([event |-> "step-simulation", sock |-> sock])

\* socket.ts: resetSimulation (the store has a resetSimulation of its own)
socketResetSimulation(sock) ==
    IF sock = 0
    THEN NoSocket
    ELSE Emit([event |-> "reset-simulation", sock |-> sock])

changeTickSpeed(sock, stepInterval) ==
    IF sock = 0
    THEN NoSocket
    ELSE Emit([ event |-> "change-tick-speed", sock |-> sock,
                stepInterval |-> stepInterval ])

---------------------------------------------------------------------------
(* The controls: which button is disabled, and what its handler does.      *)

\* Dashboard: socketInitialized, set once initializeSocket has been called
socketInitialized(n) == n > 0

\* disabled={loading || simulation.processes.length === 0}
runDisabled(sim, busy) == busy \/ Len(sim.processes) = 0

\* disabled={simulation.status === 'running' || simulation.processes.length === 0}
startDisabled(sim) == sim.status = "running" \/ Len(sim.processes) = 0

\* mutant of pauseDisabled: the button is never disabled
pauseDisabledNever(sim) == FALSE

\* disabled={simulation.status !== 'running'}
pauseDisabled(sim) == sim.status # "running"

\* disabled={simulation.status !== 'paused'}
resumeDisabled(sim) == sim.status # "paused"

stepDisabled(sim) == sim.status # "paused"

\* disabled={simulation.status === 'running'}
resetDisabled(sim) == sim.status = "running"

\* { ...simulation.algorithmConfig, showDetailedMetrics: true }
startConfig(sim) ==
    [ k \in DOMAIN sim.algorithmConfig \cup {"showDetailedMetrics"} |->
        IF k = "showDetailedMetrics"
        THEN [t |-> "boolean", b |-> TRUE]
        ELSE sim.algorithmConfig[k] ]

\* handleStartRealTimeSimulation: the error it shows, the command it called
\* (none before the socket is initialized) and what that command did
handleStartRealTimeSimulation(sim, sock, initialized, speed) ==
    IF ~initialized
    THEN [ error |-> Str("Socket connection not established. Please refresh the page and try again."),
           called |-> "none", threw |-> FALSE, emitted |-> << >> ]
    ELSE LET c == startSimulation(sock, sim.algorithm, sim.processes, speed,
                                  startConfig(sim))
         IN  [ error |-> IF c.threw
                         THEN Str("Socket not initialized. Call initializeSocket first.")
                         ELSE Null,
               called |-> "startSimulation",
               threw |-> c.threw, emitted |-> c.emitted ]

\* the speed handlers after setSimSpeed(newSpeed): changeTickSpeed is called
\* only while a run is running or paused
speedChanged(sim, sock, newSpeed) ==
    IF sim.status = "running" \/ sim.status = "paused"
    THEN [ called |-> "changeTickSpeed",
           threw |-> changeTickSpeed(sock, newSpeed).threw,
           emitted |-> changeTickSpeed(sock, newSpeed).emitted ]
    ELSE [ called |-> "none", threw |-> FALSE, emitted |-> << >> ]

\* Math.max(100, simSpeed - 200), Math.min(2000, simSpeed + 200)
increaseSpeed(speed) == IF speed - 200 > 100 THEN speed - 200 ELSE 100

decreaseSpeed(speed) == IF speed + 200 < 2000 THEN speed + 200 ELSE 2000

\* the runs started last once the store has been reset
markStale(rs) ==
    [ k \in DOMAIN rs |-> IF rs[k] = Null THEN Null ELSE [rs[k] EXCEPT !.stale = TRUE] ]

---------------------------------------------------------------------------
(* The Dashboard's subscription handlers and the batch path.               *)

\* Number(v) for the values the statistics carry
NumericStrings == [ s \in {"0", "2", "3"} |-> CASE s = "0" -> 0 [] s = "2" -> 2 [] OTHER -> 3 ]

JsNumber(v) ==
    CASE v.t = "number" -> v
      [] v.t = "string" /\ v.s \in DOMAIN NumericStrings -> Num(NumericStrings[v.s])
      [] OTHER -> NaN

\* !data || !data.results || !data.statistics
invalidCompletion(data) ==
    \/ ~Truthy(data)
    \/ ~Truthy(Get(data, "results"))
    \/ ~Truthy(Get(data, "statistics"))

\* the places of a result list whose process has no id
IdlessResults(data) ==
    IF IsArray(Get(data, "results"))
    THEN { <<"results", i>> : i \in { j \in 1..Len(data.results.a) :
                                        data.results.a[j].id = "" } }
    ELSE {}

\* the statistics bundle the completed handler stores
completedStatistics(st) ==
    [ totalProcesses |-> JsNumber(OrElse(Get(st, "totalProcesses"), Num(0))),
      totalTime |-> JsNumber(OrElse(Get(st, "totalTime"), Num(0))),
      cpuUtilization |-> OrElse(OptToString(Get(st, "cpuUtilization")), Str("0")),
      avgWaitingTime |-> OrElse(OptToString(Get(st, "avgWaitingTime")), Str("0")),
      avgTurnaroundTime |-> OrElse(OptToString(Get(st, "avgTurnaroundTime")), Str("0")),
      avgResponseTime |-> OrElse(OptToString(Get(st, "avgResponseTime")), Str("0")),
      throughput |-> OrElse(OptToString(Get(st, "throughput")), Str("0")),
      contextSwitches |-> JsNumber(OrElse(Get(st, "contextSwitches"), Num(0))),
      avgArrivalsPerStep |-> OrElse(OptToString(Get(st, "avgArrivalsPerStep")), Str("0")) ]

\* the record the completed handler hands to addResult
streamedResult(data, algorithm, id, now, rnd) ==
    [ id |-> id,
      algorithm |-> algorithm,
      processes |-> IF IsArray(data.results)
                    THEN mapIds(data.results.a, "results", rnd)
                    ELSE << >>,
      statistics |-> completedStatistics(data.statistics),
      timestamp |-> now ]

\* the status the completed handler leaves: setStatus('completed') comes first
completedStatus(sim, data) == setStatus(sim, "completed")

\* the registry the completed handler leaves
completedResults(rs, data, algorithm, id, now, rnd) ==
    IF invalidCompletion(data)
    THEN rs
    ELSE addResult(rs, streamedResult(data, algorithm, id, now, rnd))

\* onSimulationError
onSimulationError(sim) == setStatus(sim, "idle")

\* onSimulationState: the status a state event carries, Undefined when the
\* handler takes neither branch
stateOf(stateData) ==
    IF IsObject(stateData) /\ "state" \in DOMAIN stateData
    THEN stateData.state
    ELSE IF ~IsObject(stateData) /\ stateData.t = "string"
         THEN stateData
         ELSE Undefined

onSimulationState(sim, stateData) ==
    IF stateOf(stateData) # Undefined
    THEN setStatus(sim, stateOf(stateData).s)
    ELSE sim

\* !result || !result.results || !result.statistics
invalidBatch(result) == invalidCompletion(result)

\* the partial update handleRunSimulation passes to updateSimulationStep
batchStep(result) ==
    [ processes |-> OrElse(Get(result, "results"), Arr(<< >>)),
      statistics |-> OrElse(Get(result, "statistics"), EmptyObj),
      currentTime |-> OrElse(OptGet(result, "statistics", "totalTime"), Num(0)) ]

\* the record handleRunSimulation hands to addResult
batchResult(result, algorithm, id, now) ==
    [ id |-> id,
      algorithm |-> algorithm,
      processes |-> IF IsArray(Get(result, "results")) THEN result.results.a ELSE << >>,
      statistics |-> OrElse(Get(result, "statistics"), EmptyObj),
      timestamp |-> now ]

---------------------------------------------------------------------------
(* The inputs explored.                                                    *)

PA == Proc("p1", "A")
PB == Proc("p2", "B")
PX == Proc("", "X")
PY == Proc("", "Y")

Statuses == {"idle", "running", "paused", "completed"}

\* the selections AlgorithmSelector makes: RR carries its time quantum
Selections ==
    { [algorithm |-> "FCFS", config |-> EmptyObj],
      [algorithm |-> "RR", config |-> [timeQuantum |-> Num(2)]],
      [algorithm |-> "SJF", config |-> EmptyObj] }

TimeValues == {Num(0), Num(1), Num(2)}
ArrayValues == {Arr(<< >>), Arr(<<PA, PB>>), Arr(<<PX>>), Str("oops")}
RunningValues == {PA, PX, Null}
StatValues == {Num(85), Str("85"), Str("7.50"), NaN}

\* partial updates that carry one field
OneFieldSteps ==
    { [currentTime |-> v] : v \in TimeValues }
    \cup { [processes |-> v] : v \in ArrayValues }
    \cup { [queues |-> [readyQueue |-> v]] : v \in ArrayValues \cup {Null} }
    \cup { [queues |-> [runningProcess |-> v]] : v \in RunningValues }
    \cup { [queues |-> [waitingQueue |-> v]] : v \in ArrayValues }
    \cup { [queues |-> [completedProcesses |-> v]] : v \in ArrayValues }
    \cup { [statistics |-> [k \in {f} |-> v]] :
             f \in StatFields \cup {"contextSwitches", "cpuIdlePercentage"},
             v \in StatValues }

\* a full snapshot: B ready, A on the CPU
FullA ==
    [ currentTime |-> Num(1),
      processes |-> Arr(<<PA, PB>>),
      queues |-> [ readyQueue |-> Arr(<<PB>>),
                   runningProcess |-> PA,
                   waitingQueue |-> Arr(<< >>),
                   completedProcesses |-> Arr(<< >>) ],
      statistics |-> [ cpuUtilization |-> Num(85),
                       avgWaitingTime |-> Str("1.50"),
                       avgTurnaroundTime |-> Str("3.00"),
                       avgResponseTime |-> Str("0.50"),
                       throughput |-> Str("0.40"),
                       contextSwitches |-> Num(3) ] ]

\* the next full snapshot: B done, A preempted to the ready queue, CPU idle
FullB ==
    [ currentTime |-> Num(2),
      processes |-> Arr(<<PA, PB>>),
      queues |-> [ readyQueue |-> Arr(<<PA>>),
                   runningProcess |-> Null,
                   waitingQueue |-> Arr(<< >>),
                   completedProcesses |-> Arr(<<PB>>) ],
      statistics |-> [ cpuUtilization |-> Num(50),
                       avgWaitingTime |-> Str("2.00"),
                       avgTurnaroundTime |-> Str("3.00"),
                       avgResponseTime |-> Str("0.50"),
                       throughput |-> Str("0.50"),
                       cpuIdlePercentage |-> Str("50.00") ] ]

\* two well-formed arrays beside a ready queue that is not an array
Malformed ==
    [ processes |-> Arr(<<PA>>),
      queues |-> [ readyQueue |-> Str("oops"), waitingQueue |-> Arr(<<PB>>) ] ]

\* a process list in which two entries beside a well-formed one lack an id
TwoIdless == [ processes |-> Arr(<<PA, PX, PY>>) ]

\* a process on the CPU with 1 of its 4 time units left
PW ==
    [ t |-> "process", id |-> "p3", name |-> "W", burstTime |-> Num(4),
      remainingTime |-> Num(1), state |-> Str("running") ]

\* a process reported with more time left than its burst time
PZ ==
    [ t |-> "process", id |-> "p4", name |-> "Z", burstTime |-> Num(3),
      remainingTime |-> Num(5), state |-> Str("running") ]

\* steps whose running process carries its timing fields
TimedSteps == { [queues |-> [runningProcess |-> p]] : p \in {PW, PZ} }

\* a payload carrying keys that are no part of a step beside a new time
Foreign ==
    [ currentTime |-> Num(2),
      status |-> Str("completed"),
      algorithm |-> Str("RR"),
      algorithmConfig |-> [timeQuantum |-> Num(9)] ]

\* a detailed metric beside a ready queue that is not an array
MalformedDetailed ==
    [ queues |-> [readyQueue |-> Str("oops")],
      statistics |-> [contextSwitches |-> Num(3)] ]

\* the step payloads given to the store alone
StepPayloads ==
    OneFieldSteps
    \cup {FullA, FullB, Malformed, TwoIdless, Foreign, MalformedDetailed}
    \cup TimedSteps

\* the step events a server emits on the channel
StepEvents ==
    { FullA, FullB,
      [queues |-> [runningProcess |-> PB]],
      [statistics |-> [cpuUtilization |-> Num(85)]] }

FinalStatistics ==
    [ totalProcesses |-> Num(2),
      totalTime |-> Num(2),
      cpuUtilization |-> Str("85.00"),
      avgWaitingTime |-> Str("1.50"),
      avgTurnaroundTime |-> Str("3.00"),
      avgResponseTime |-> Str("0.50"),
      avgArrivalsPerStep |-> Str("1.00"),
      throughput |-> Str("0.40") ]

\* completion payloads: well-formed, and lacking results or statistics
CompletedEvents ==
    { [results |-> Arr(<<PA, PB>>), statistics |-> FinalStatistics],
      [statistics |-> FinalStatistics],
      [results |-> Arr(<<PA, PB>>)] }

\* what runSimulation resolves to (a thrown error is a separate action)
BatchResults == CompletedEvents

\* state events: the bare status, and the object form
StateEvents ==
    { Str(st) : st \in Statuses }
    \cup { [state |-> Str("running"), tickSpeed |-> Num(500)] }

\* the ids generateId() can yield
ResultIds == {"r1", "r2"}

\* the process lists the process editor submits
EditedLists == { <<PA>>, <<PA, PB>> }

\* the results given to the results store alone
ResultInputs ==
    { [ id |-> id, algorithm |-> a, processes |-> <<PA>>,
        statistics |-> FinalStatistics, timestamp |-> 0 ] :
      id \in ResultIds, a \in {"FCFS", "RR", "SJF"} }

\* the two runs of the worked example: waiting 10, utilization 50 and
\* waiting 5, utilization 80
ExampleA == [ avgWaitingTime |-> Num(10), cpuUtilization |-> Num(50) ]
ExampleB == [ avgWaitingTime |-> Num(5), cpuUtilization |-> Num(80) ]

\* the statistics of the runs given to the comparison chart: a run that is
\* worst on every metric, one that is best on every metric, one in between
\* that ties with the worst on three metrics, and the two example runs
RunStatistics ==
    { [ cpuUtilization |-> Str("50.00"), avgWaitingTime |-> Str("10.00"),
        avgTurnaroundTime |-> Str("20.00"), avgResponseTime |-> Str("5.00"),
        throughput |-> Str("0.40") ],
      [ cpuUtilization |-> Str("80.00"), avgWaitingTime |-> Str("5.00"),
        avgTurnaroundTime |-> Str("15.00"), avgResponseTime |-> Str("2.00"),
        throughput |-> Str("0.50") ],
      [ cpuUtilization |-> Str("65.00"), avgWaitingTime |-> Str("7.50"),
        avgTurnaroundTime |-> Str("20.00"), avgResponseTime |-> Str("5.00"),
        throughput |-> Str("0.40") ],
      ExampleA,
      ExampleB }

\* the results given to the results store under the comparison chart
RunInputs ==
    { [ id |-> "r1", algorithm |-> a, processes |-> <<PA>>,
        statistics |-> st, timestamp |-> 0 ] :
      a \in {"FCFS", "RR", "SJF"}, st \in RunStatistics }

---------------------------------------------------------------------------
(* The state after construction, and the bookkeeping of every operation.   *)

Init ==
    /\ simulation = initialState
    /\ results = << >>
    /\ socket = 0
    /\ connected = {}
    /\ created = 0
    /\ algorithmRef = initialState.algorithm
    /\ loading = FALSE
    /\ error = Null
    /\ request = Null
    /\ insights = insightsMemo(chartData(<< >>))
    /\ simSpeed = 1000
    /\ emitted = << >>
    /\ runs = [streamed |-> Null, batch |-> Null]
    /\ nops = 0
    /\ last = [op |-> "none", input |-> Null, sock |-> 0, threw |-> FALSE]
    /\ prev = [ simulation |-> initialState, results |-> << >>, socket |-> 0,
                runs |-> [streamed |-> Null, batch |-> Null] ]

\* an operation that emitted msgs on the channel and left rs as the runs
\* started last
DidEmit(op, input, sock, threw, msgs, rs) ==
    /\ nops' = nops + 1
    /\ last' = [op |-> op, input |-> input, sock |-> sock, threw |-> threw]
    /\ prev' = [ simulation |-> simulation, results |-> results,
                 socket |-> socket, runs |-> runs ]
    /\ emitted' = msgs
    /\ runs' = rs

Did(op, input, sock, threw) == DidEmit(op, input, sock, threw, << >>, runs)

---------------------------------------------------------------------------
(* The simulation store driven alone.                                      *)

ApplyStep(data, rnd) ==
    /\ nops < MaxStoreOps
    /\ simulation' = updateSimulationStep(simulation, data, rnd)
    /\ Did("updateSimulationStep", data, 0, stepThrows(data))
    /\ UNCHANGED simSpeed
    /\ UNCHANGED <<results, socket, connected, created, algorithmRef, loading,
                   error, request, insights>>

SetStatus(st) ==
    /\ nops < MaxStoreOps
    /\ simulation' = setStatus(simulation, st)
    /\ Did("setStatus", Str(st), 0, FALSE)
    /\ UNCHANGED simSpeed
    /\ UNCHANGED <<results, socket, connected, created, algorithmRef, loading,
                   error, request, insights>>

SetAlgorithm(sel) ==
    /\ nops < MaxStoreOps
    /\ simulation' = setAlgorithm(simulation, sel.algorithm, sel.config)
    /\ Did("setAlgorithm", sel, 0, FALSE)
    /\ UNCHANGED simSpeed
    /\ UNCHANGED <<results, socket, connected, created, algorithmRef, loading,
                   error, request, insights>>

SetProcesses(list) ==
    /\ nops < MaxStoreOps
    /\ simulation' = setProcesses(simulation, list)
    /\ Did("setProcesses", Arr(list), 0, FALSE)
    /\ UNCHANGED simSpeed
    /\ UNCHANGED <<results, socket, connected, created, algorithmRef, loading,
                   error, request, insights>>

ResetSimulation ==
    /\ nops < MaxStoreOps
    /\ simulation' = resetSimulation(simulation)
    /\ Did("resetSimulation", Null, 0, FALSE)
    /\ UNCHANGED simSpeed
    /\ UNCHANGED <<results, socket, connected, created, algorithmRef, loading,
                   error, request, insights>>

NextStore ==
    \/ \E data \in StepPayloads : \E rnd \in [Idless(data) -> SynthIds] :
          ApplyStep(data, rnd)
    \/ \E st \in Statuses : SetStatus(st)
    \/ \E sel \in Selections : SetAlgorithm(sel)
    \/ \E list \in EditedLists : SetProcesses(list)
    \/ ResetSimulation

SpecStore == Init /\ [][NextStore]_vars

---------------------------------------------------------------------------
(* The results store driven alone.                                         *)

AddResult(r) ==
    /\ nops < MaxResultOps
    /\ results' = addResult(results, r)
    /\ insights' = insightsMemo(chartData(addResult(results, r)))
    /\ Did("addResult", r, 0, FALSE)
    /\ UNCHANGED simSpeed
    /\ UNCHANGED <<simulation, socket, connected, created, algorithmRef, loading,
                   error, request>>

ClearResults ==
    /\ nops < MaxResultOps
    /\ results' = clearResults(results)
    /\ insights' = insightsMemo(chartData(clearResults(results)))
    /\ Did("clearResults", Null, 0, FALSE)
    /\ UNCHANGED simSpeed
    /\ UNCHANGED <<simulation, socket, connected, created, algorithmRef, loading,
                   error, request>>

NextResults ==
    \/ \E r \in ResultInputs : AddResult(r)
    \/ ClearResults

SpecResults == Init /\ [][NextResults]_vars

---------------------------------------------------------------------------
(* The results store driven alone under the comparison chart.              *)

AddRun(r) ==
    /\ nops < MaxRunOps
    /\ results' = addResult(results, r)
    /\ insights' = insightsMemo(chartData(addResult(results, r)))
    /\ Did("addResult", r, 0, FALSE)
    /\ UNCHANGED simSpeed
    /\ UNCHANGED <<simulation, socket, connected, created, algorithmRef, loading,
                   error, request>>

ClearRuns ==
    /\ nops < MaxRunOps
    /\ results' = clearResults(results)
    /\ insights' = insightsMemo(chartData(clearResults(results)))
    /\ Did("clearResults", Null, 0, FALSE)
    /\ UNCHANGED simSpeed
    /\ UNCHANGED <<simulation, socket, connected, created, algorithmRef, loading,
                   error, request>>

NextInsights ==
    \/ \E r \in RunInputs : AddRun(r)
    \/ ClearRuns

SpecInsights == Init /\ [][NextInsights]_vars

---------------------------------------------------------------------------
(* The whole client: the channel, its handlers, the controls.              *)

\* Dashboard effect: initializeSocket(onStep, onCompleted, onError, onState)
InitializeSocket ==
    /\ nops < MaxOps
    /\ socket' = initializeSocket(socket, connected, created).socket
    /\ connected' = initializeSocket(socket, connected, created).connected
    /\ created' = initializeSocket(socket, connected, created).created
    /\ Did("initializeSocket", Null, 0, FALSE)
    /\ UNCHANGED simSpeed
    /\ UNCHANGED <<simulation, results, algorithmRef, loading, error, request, insights>>

\* Dashboard effect cleanup: cleanupSocket()
CleanupSocket ==
    /\ nops < MaxOps
    /\ socket' = cleanupSocket(socket, connected, created).socket
    /\ connected' = cleanupSocket(socket, connected, created).connected
    /\ created' = cleanupSocket(socket, connected, created).created
    /\ Did("cleanupSocket", Null, 0, FALSE)
    /\ UNCHANGED simSpeed
    /\ UNCHANGED <<simulation, results, algorithmRef, loading, error, request, insights>>

\* 'simulation-step' on socket s
OnSimulationStep(s, data, rnd) ==
    /\ nops < MaxOps
    /\ s \in connected
    /\ simulation' = updateSimulationStep(simulation, data, rnd)
    /\ Did("onSimulationStep", data, s, stepThrows(data))
    /\ UNCHANGED simSpeed
    /\ UNCHANGED <<results, socket, connected, created, algorithmRef, loading,
                   error, request, insights>>

\* 'simulation-completed' on socket s
OnSimulationCompleted(s, data, id, rnd) ==
    /\ nops < MaxOps
    /\ s \in connected
    /\ simulation' = completedStatus(simulation, data)
    /\ results' = completedResults(results, data, algorithmRef, id, nops, rnd)
    /\ insights' =
          insightsMemo(chartData(
              completedResults(results, data, algorithmRef, id, nops, rnd)))
    /\ Did("onSimulationCompleted", data, s, FALSE)
    /\ UNCHANGED simSpeed
    /\ UNCHANGED <<socket, connected, created, algorithmRef, loading, error,
                   request>>

\* 'simulation-error' on socket s
OnSimulationError(s) ==
    /\ nops < MaxOps
    /\ s \in connected
    /\ simulation' = onSimulationError(simulation)
    /\ Did("onSimulationError", Null, s, FALSE)
    /\ UNCHANGED simSpeed
    /\ UNCHANGED <<results, socket, connected, created, algorithmRef, loading,
                   error, request, insights>>

\* 'connect_error' on socket s: the listener calls onSimulationError
OnConnectError(s) ==
    /\ nops < MaxOps
    /\ s \in connected
    /\ simulation' = onSimulationError(simulation)
    /\ Did("onConnectError", Null, s, FALSE)
    /\ UNCHANGED simSpeed
    /\ UNCHANGED <<results, socket, connected, created, algorithmRef, loading,
                   error, request, insights>>

\* 'simulation-state' on socket s
OnSimulationState(s, stateData) ==
    /\ nops < MaxOps
    /\ s \in connected
    /\ simulation' = onSimulationState(simulation, stateData)
    /\ Did("onSimulationState", stateData, s, FALSE)
    /\ UNCHANGED simSpeed
    /\ UNCHANGED <<results, socket, connected, created, algorithmRef, loading,
                   error, request, insights>>

\* AlgorithmSelector's effect, then Dashboard's effect on simulation.algorithm
SelectAlgorithm(sel) ==
    /\ nops < MaxOps
    /\ simulation' = setAlgorithm(simulation, sel.algorithm, sel.config)
    /\ algorithmRef' = sel.algorithm
    /\ Did("setAlgorithm", sel, 0, FALSE)
    /\ UNCHANGED simSpeed
    /\ UNCHANGED <<results, socket, connected, created, loading, error, request, insights>>

\* ProcessGenerator's effect
EditProcesses(list) ==
    /\ nops < MaxOps
    /\ simulation' = setProcesses(simulation, list)
    /\ Did("setProcesses", Arr(list), 0, FALSE)
    /\ UNCHANGED simSpeed
    /\ UNCHANGED <<results, socket, connected, created, algorithmRef, loading,
                   error, request, insights>>

\* the Reset button (disabled while running): the socket command throws
\* without a socket, and the store is reset either way
HandleReset ==
    /\ nops < MaxOps
    /\ ~resetDisabled(simulation)
    /\ simulation' = resetSimulation(simulation)
    /\ algorithmRef' = resetSimulation(simulation).algorithm
    /\ DidEmit("handleReset", Str("resetSimulation"), 0,
               socketResetSimulation(socket).threw,
               socketResetSimulation(socket).emitted, markStale(runs))
    /\ UNCHANGED simSpeed
    /\ UNCHANGED <<results, socket, connected, created, loading, error, request, insights>>

\* the Run Simulation button, up to the await
HandleRunSimulation ==
    /\ nops < MaxOps
    /\ ~runDisabled(simulation, loading)
    /\ loading' = TRUE
    /\ error' = Null
    /\ request' = [algorithm |-> simulation.algorithm]
    /\ DidEmit("handleRunSimulation", Null, 0, FALSE, << >>,
               [runs EXCEPT !.batch = [ algorithm |-> simulation.algorithm,
                                        stale |-> FALSE ]])
    /\ UNCHANGED simSpeed
    /\ UNCHANGED <<simulation, results, socket, connected, created, algorithmRef, insights>>

\* handleRunSimulation after the await, runSimulation having resolved
BatchResolved(result, id, rnd) ==
    /\ nops < MaxOps
    /\ request # Null
    /\ IF invalidBatch(result)
       THEN /\ error' = Str("Received invalid simulation data. Check console for details.")
            /\ UNCHANGED <<simulation, results, insights>>
       ELSE /\ simulation' =
                 setStatus(updateSimulationStep(simulation, batchStep(result), rnd),
                           "completed")
            /\ results' =
                 addResult(results, batchResult(result, request.algorithm, id, nops))
            /\ insights' =
                 insightsMemo(chartData(
                     addResult(results,
                               batchResult(result, request.algorithm, id, nops))))
            /\ UNCHANGED error
    /\ loading' = FALSE
    /\ request' = Null
    /\ DidEmit("batchResolved", result, 0, FALSE, << >>,
               [runs EXCEPT !.batch = Null])
    /\ UNCHANGED simSpeed
    /\ UNCHANGED <<socket, connected, created, algorithmRef>>

\* handleRunSimulation after the await, runSimulation having thrown
BatchRejected ==
    /\ nops < MaxOps
    /\ request # Null
    /\ error' = Str("Failed to run simulation. Please try again.")
    /\ loading' = FALSE
    /\ request' = Null
    /\ DidEmit("batchRejected", Null, 0, TRUE, << >>,
               [runs EXCEPT !.batch = Null])
    /\ UNCHANGED simSpeed
    /\ UNCHANGED <<simulation, results, socket, connected, created, algorithmRef, insights>>

\* the Start Real-time button
HandleStartRealTimeSimulation ==
    /\ nops < MaxOps
    /\ ~startDisabled(simulation)
    /\ error' = handleStartRealTimeSimulation(simulation, socket,
                    socketInitialized(created), simSpeed).error
    /\ DidEmit("handleStartRealTimeSimulation",
               Str(handleStartRealTimeSimulation(simulation, socket,
                    socketInitialized(created), simSpeed).called), 0,
               handleStartRealTimeSimulation(simulation, socket,
                    socketInitialized(created), simSpeed).threw,
               handleStartRealTimeSimulation(simulation, socket,
                    socketInitialized(created), simSpeed).emitted,
               IF handleStartRealTimeSimulation(simulation, socket,
                     socketInitialized(created), simSpeed).emitted # << >>
               THEN [runs EXCEPT !.streamed = [ algorithm |-> simulation.algorithm,
                                                sock |-> socket,
                                                stale |-> FALSE ]]
               ELSE runs)
    /\ UNCHANGED <<simulation, results, socket, connected, created, algorithmRef,
                   loading, request, insights, simSpeed>>

\* the Pause button: onClick={pauseSimulation}
PauseSimulation ==
    /\ nops < MaxOps
    /\ ~pauseDisabled(simulation)
    /\ DidEmit("pauseSimulation", Str("pauseSimulation"), 0,
               pauseSimulation(socket).threw,
               pauseSimulation(socket).emitted, runs)
    /\ UNCHANGED <<simulation, results, socket, connected, created, algorithmRef,
                   loading, error, request, insights, simSpeed>>

\* the Resume button: onClick={resumeSimulation}
ResumeSimulation ==
    /\ nops < MaxOps
    /\ ~resumeDisabled(simulation)
    /\ DidEmit("resumeSimulation", Str("resumeSimulation"), 0,
               resumeSimulation(socket).threw,
               resumeSimulation(socket).emitted, runs)
    /\ UNCHANGED <<simulation, results, socket, connected, created, algorithmRef,
                   loading, error, request, insights, simSpeed>>

\* the Step button: onClick={stepSimulation}
StepSimulation ==
    /\ nops < MaxOps
    /\ ~stepDisabled(simulation)
    /\ DidEmit("stepSimulation", Str("stepSimulation"), 0,
               stepSimulation(socket).threw,
               stepSimulation(socket).emitted, runs)
    /\ UNCHANGED <<simulation, results, socket, connected, created, algorithmRef,
                   loading, error, request, insights, simSpeed>>

\* the slider: handleSimSpeedChange([newSpeed])
HandleSimSpeedChange(newSpeed) ==
    /\ nops < MaxOps
    /\ simSpeed' = newSpeed
    /\ DidEmit("handleSimSpeedChange",
               Str(speedChanged(simulation, socket, newSpeed).called), 0,
               speedChanged(simulation, socket, newSpeed).threw,
               speedChanged(simulation, socket, newSpeed).emitted, runs)
    /\ UNCHANGED <<simulation, results, socket, connected, created, algorithmRef,
                   loading, error, request, insights>>

\* the + button (disabled at 100 ms)
IncreaseSpeed ==
    /\ nops < MaxOps
    /\ simSpeed > 100
    /\ simSpeed' = increaseSpeed(simSpeed)
    /\ DidEmit("increaseSpeed",
               Str(speedChanged(simulation, socket, increaseSpeed(simSpeed)).called), 0,
               speedChanged(simulation, socket, increaseSpeed(simSpeed)).threw,
               speedChanged(simulation, socket, increaseSpeed(simSpeed)).emitted,
               runs)
    /\ UNCHANGED <<simulation, results, socket, connected, created, algorithmRef,
                   loading, error, request, insights>>

\* the - button (disabled at 2000 ms)
DecreaseSpeed ==
    /\ nops < MaxOps
    /\ simSpeed < 2000
    /\ simSpeed' = decreaseSpeed(simSpeed)
    /\ DidEmit("decreaseSpeed",
               Str(speedChanged(simulation, socket, decreaseSpeed(simSpeed)).called), 0,
               speedChanged(simulation, socket, decreaseSpeed(simSpeed)).threw,
               speedChanged(simulation, socket, decreaseSpeed(simSpeed)).emitted,
               runs)
    /\ UNCHANGED <<simulation, results, socket, connected, created, algorithmRef,
                   loading, error, request, insights>>

Next ==
    \/ InitializeSocket
    \/ CleanupSocket
    \/ \E s \in connected : \E data \in StepEvents :
          \E rnd \in [Idless(data) -> SynthIds] : OnSimulationStep(s, data, rnd)
    \/ \E s \in connected : \E data \in CompletedEvents : \E id \in ResultIds :
          \E rnd \in [IdlessResults(data) -> SynthIds] :
             OnSimulationCompleted(s, data, id, rnd)
    \/ \E s \in connected : OnSimulationError(s)
    \/ \E s \in connected : OnConnectError(s)
    \/ \E s \in connected : \E stateData \in StateEvents :
          OnSimulationState(s, stateData)
    \/ \E sel \in Selections : SelectAlgorithm(sel)
    \/ \E list \in EditedLists : EditProcesses(list)
    \/ HandleReset
    \/ HandleRunSimulation
    \/ \E result \in BatchResults : \E id \in ResultIds :
          \E rnd \in [Idless(batchStep(result)) -> SynthIds] :
             BatchResolved(result, id, rnd)
    \/ BatchRejected

Spec == Init /\ [][Next]_vars

---------------------------------------------------------------------------
(* The controls beside the channel: the user edits, starts, pauses,        *)
(* resumes, steps, resets and changes the speed while the server reports   *)
(* its state, a step and the completion.                                   *)

\* the speed the slider is dragged to
SpeedValues == {500}

\* the state events, step and completion a server sends during a run
ControlStates == {Str("running"), Str("paused")}
ControlSteps == {FullA}
ControlCompleted == { [results |-> Arr(<<PA, PB>>), statistics |-> FinalStatistics] }
ControlSelections == { sel \in Selections : sel.algorithm # "SJF" }

NextControls ==
    \/ InitializeSocket
    \/ CleanupSocket
    \/ \E s \in connected : \E stateData \in ControlStates :
          OnSimulationState(s, stateData)
    \/ \E s \in connected : \E data \in ControlSteps :
          \E rnd \in [Idless(data) -> SynthIds] : OnSimulationStep(s, data, rnd)
    \/ \E s \in connected : \E data \in ControlCompleted :
          \E rnd \in [IdlessResults(data) -> SynthIds] :
             OnSimulationCompleted(s, data, "r1", rnd)
    \/ \E sel \in ControlSelections : SelectAlgorithm(sel)
    \/ EditProcesses(<<PA>>)
    \/ HandleStartRealTimeSimulation
    \/ PauseSimulation
    \/ ResumeSimulation
    \/ StepSimulation
    \/ \E newSpeed \in SpeedValues : HandleSimSpeedChange(newSpeed)
    \/ IncreaseSpeed
    \/ DecreaseSpeed
    \/ HandleReset
    \/ HandleRunSimulation
    \/ \E data \in ControlCompleted :
          \E rnd \in [Idless(batchStep(data)) -> SynthIds] :
             BatchResolved(data, "r1", rnd)

SpecControls == Init /\ [][NextControls]_vars

---------------------------------------------------------------------------
(* Reading a snapshot, and a payload, field by field.                      *)

SnapshotFields ==
    {"currentTime", "runningProcess", "detailedMetrics"} \cup ArrayFields \cup StatFields

Stored(sim, f) ==
    CASE f = "currentTime" -> sim.currentTime
      [] f = "processes" -> sim.processes
      [] f \in QueueFields -> sim.queues[f]
      [] f = "detailedMetrics" -> sim.detailedMetrics
      [] OTHER -> sim.statistics[f]

\* the payload says nothing about snapshot field f
Omitted(data, f) ==
    IF f = "detailedMetrics"
    THEN \A k \in DetailKeys : OptGet(data, "statistics", k) = Undefined
    ELSE Incoming(data, f) = Undefined

\* stored is the incoming list, element by element and in order, an element
\* without an id having been given one
SameUpToId(stored, incoming) ==
    /\ Len(stored) = Len(incoming)
    /\ \A i \in 1..Len(incoming) :
          /\ stored[i].name = incoming[i].name
          /\ stored[i].id # ""
          /\ incoming[i].id # "" => stored[i].id = incoming[i].id

StepOps == {"updateSimulationStep", "onSimulationStep"}
ChannelOps ==
    {"onSimulationStep", "onSimulationCompleted", "onSimulationError",
     "onConnectError", "onSimulationState"}

---------------------------------------------------------------------------
(* C1: updateSimulationStep leaves every snapshot field that the partial   *)
(* update omits at the value it had before the call.                       *)
C1_OmittedFieldsKept ==
    last.op \in StepOps =>
        \A f \in SnapshotFields :
            Omitted(last.input, f) =>
                Stored(simulation, f) = Stored(prev.simulation, f)

\* a step that changed the snapshot while omitting a field that was not at
\* its initial value
C1_Witness ==
    /\ last.op \in StepOps
    /\ simulation # prev.simulation
    /\ \E f \in SnapshotFields :
          /\ Omitted(last.input, f)
          /\ Stored(prev.simulation, f) # Stored(initialState, f)

(* C2: for each array-valued field, a well-formed incoming array replaces  *)
(* the stored field (same elements, same order, no merge); any other       *)
(* incoming value leaves the stored field unchanged.  Stated up to the ids *)
(* the sanitation gives to id-less elements.                               *)
C2_ArraysReplacedOrKept ==
    last.op \in StepOps =>
        \A f \in ArrayFields :
            IF IsArray(Incoming(last.input, f))
            THEN SameUpToId(Stored(simulation, f), Incoming(last.input, f).a)
            ELSE Stored(simulation, f) = Stored(prev.simulation, f)

(* C3: the running slot is non-null only if status is `running`.           *)
C3_RunningSlotOnlyWhenRunning ==
    simulation.queues.runningProcess # Null => simulation.status = "running"

(* C4: a process id appears in at most one of the ready queue, the running *)
(* slot and the waiting queue.                                             *)
C4_QueuesDisjoint ==
    LET ready == { simulation.queues.readyQueue[i].id :
                     i \in 1..Len(simulation.queues.readyQueue) }
        waiting == { simulation.queues.waitingQueue[i].id :
                       i \in 1..Len(simulation.queues.waitingQueue) }
        running == IF simulation.queues.runningProcess = Null
                   THEN {}
                   ELSE { simulation.queues.runningProcess.id }
    IN  /\ ready \cap waiting = {}
        /\ ready \cap running = {}
        /\ waiting \cap running = {}

(* C5: the registry holds at most one result per algorithm identifier.     *)
C5_OneResultPerAlgorithm ==
    \A i, j \in 1..Len(results) :
        results[i].algorithm = results[j].algorithm => i = j

\* addResult has just been given an algorithm the registry already held,
\* beside another one
C5_Witness ==
    /\ last.op = "addResult"
    /\ Len(results) >= 2
    /\ \E i \in 1..Len(prev.results) :
          prev.results[i].algorithm = last.input.algorithm

(* C6: addResult(r) for an algorithm already stored puts r at the place of *)
(* the old entry and changes neither the length nor any other entry; for a *)
(* new algorithm it appends r and changes no existing entry.               *)
C6_ReplaceInPlaceOrAppend ==
    last.op = "addResult" =>
        IF \E i \in 1..Len(prev.results) :
              prev.results[i].algorithm = last.input.algorithm
        THEN /\ Len(results) = Len(prev.results)
             /\ \A i \in 1..Len(prev.results) :
                   results[i] = IF prev.results[i].algorithm = last.input.algorithm
                                THEN last.input
                                ELSE prev.results[i]
             /\ Cardinality({ i \in 1..Len(results) :
                                results[i].algorithm = last.input.algorithm }) = 1
        ELSE /\ Len(results) = Len(prev.results) + 1
             /\ results[Len(results)] = last.input
             /\ \A i \in 1..Len(prev.results) : results[i] = prev.results[i]

\* a different result replaced the first of several entries
C6_Witness ==
    /\ last.op = "addResult"
    /\ Len(prev.results) >= 2
    /\ prev.results[1].algorithm = last.input.algorithm
    /\ prev.results[1] # last.input
    /\ results[1] = last.input

\* the value field f holds once a well-formed incoming value v has won
Won(stored, f, v) ==
    CASE f \in ArrayFields -> SameUpToId(stored, v.a)
      [] f = "runningProcess" ->
            IF v = Null THEN stored = Null ELSE SameUpToId(<<stored>>, <<v>>)
      [] f = "currentTime" -> stored = v
      [] OTHER -> stored = JsToString(v)

\* the payload carries a well-formed value for snapshot field f
Carried(data, f) ==
    CASE f \in ArrayFields -> IsArray(Incoming(data, f))
      [] f = "runningProcess" -> Incoming(data, f).t \in {"null", "process"}
      [] f = "currentTime" -> Incoming(data, f).t = "number"
      [] OTHER -> Incoming(data, f).t \in {"number", "string"}

(* C7: each updateSimulationStep is a merge in which the last call wins    *)
(* per field: every field the call's payload carries has the payload's     *)
(* value afterwards.  Stated for the calls that return normally.           *)
C7_LastCallWins ==
    (last.op \in StepOps /\ ~last.threw) =>
        \A f \in SnapshotFields \ {"detailedMetrics"} :
            Carried(last.input, f) =>
                Won(Stored(simulation, f), f, Incoming(last.input, f))

(* C8: once the channel is torn down (socket is null again) none of its    *)
(* handlers is invoked: the operation performed last is no channel event.  *)
C8_NoHandlerAfterCleanup ==
    socket = 0 => last.op \notin ChannelOps

\* a channel was created and torn down, and the client went on working
C8_Witness ==
    /\ socket = 0
    /\ created > 0
    /\ last.op = "setProcesses"
    /\ prev.socket = 0

(* C9: at most one channel is live, and it is the one the module holds:    *)
(* initializeSocket on an active channel disconnects the old one first.    *)
C9_AtMostOneLiveChannel ==
    /\ Cardinality(connected) <= 1
    /\ \A s \in connected : s = socket

\* initializeSocket has just been called on an active channel
C9_Witness ==
    /\ last.op = "initializeSocket"
    /\ prev.socket # 0
    /\ socket # prev.socket
    /\ socket \in connected

(* C10: a completion payload that lacks `results` or `statistics` is       *)
(* dropped as a whole: neither the registry nor any part of the snapshot   *)
(* (status included) changes.                                              *)
C10_InvalidCompletionDropped ==
    ( /\ last.op \in {"onSimulationCompleted", "batchResolved"}
      /\ \/ "results" \notin DOMAIN last.input
         \/ "statistics" \notin DOMAIN last.input )
    => /\ simulation = prev.simulation
       /\ results = prev.results

\* the operations that report a transport failure
FailureOps == {"onSimulationError", "onConnectError", "batchRejected"}

(* C11: after a transport failure (simulation-error, connect_error, or a   *)
(* rejected batch request) the status is `idle`, and every other snapshot  *)
(* field and the registry are as they were before the failure.             *)
C11_FailureFallsBackToIdle ==
    last.op \in FailureOps =>
        /\ simulation = [prev.simulation EXCEPT !.status = "idle"]
        /\ results = prev.results

\* the partial updates that carry every field updateSimulationStep merges
FullSteps == {FullA, FullB}

(* C12: for the current snapshot S and every fully-specified partial       *)
(* update p, resetSimulation followed by updateSimulationStep(p) gives the *)
(* same merged fields as updateSimulationStep(p) applied to S directly.    *)
C12_ResetThenFullStep ==
    \A p \in FullSteps : \A rnd \in [Idless(p) -> SynthIds] :
        \A f \in SnapshotFields :
            Stored(updateSimulationStep(resetSimulation(simulation), p, rnd), f)
                = Stored(updateSimulationStep(simulation, p, rnd), f)

(* C13: after resetSimulation the snapshot is the initial value: time 0,   *)
(* no processes, empty ready/waiting/completed queues, null running slot,  *)
(* every statistic '0.00', algorithm 'FCFS' with an empty configuration,   *)
(* status `idle`.                                                          *)
C13_ResetRestoresInitial ==
    last.op = "resetSimulation" =>
        /\ simulation.currentTime = Num(0)
        /\ simulation.processes = << >>
        /\ simulation.queues.readyQueue = << >>
        /\ simulation.queues.waitingQueue = << >>
        /\ simulation.queues.completedProcesses = << >>
        /\ simulation.queues.runningProcess = Null
        /\ \A f \in StatFields : simulation.statistics[f] = Str("0.00")
        /\ simulation.detailedMetrics = EmptyObj
        /\ simulation.algorithm = "FCFS"
        /\ simulation.algorithmConfig = EmptyObj
        /\ simulation.status = "idle"

\* a reset of a snapshot that a step, a selection, an edit or a status
\* change had moved away from the initial value
C13_Witness ==
    /\ last.op = "resetSimulation"
    /\ prev.simulation # initialState
    /\ simulation = initialState

\* the ids of the entries of a process list
IdsOf(list) == { list[i].id : i \in 1..Len(list) }

(* C14: updateSimulationStep, setProcesses, setAlgorithm and setStatus     *)
(* never discard a process entry that the process list already holds: only *)
(* resetSimulation removes one.                                            *)
C14_OnlyResetDiscards ==
    last.op \in StepOps \cup {"setProcesses", "setAlgorithm", "setStatus"} =>
        IdsOf(prev.simulation.processes) \subseteq IdsOf(simulation.processes)

(* C15: no updateSimulationStep call throws for malformed input: when a    *)
(* value that is not an array arrives for processes, readyQueue,           *)
(* waitingQueue or completedProcesses, the call returns normally and the   *)
(* field keeps its previous value.                                         *)
C15_MalformedArrayTolerated ==
    last.op \in StepOps =>
        /\ ~last.threw
        /\ \A f \in ArrayFields :
              ~IsArray(Incoming(last.input, f)) =>
                  Stored(simulation, f) = Stored(prev.simulation, f)

(* C16: when updateSimulationStep receives NaN for a statistic, that       *)
(* statistic keeps its previous value, and the stored statistics never     *)
(* contain NaN (neither the number nor its string form).                   *)
C16_NaNStatisticRejected ==
    /\ last.op \in StepOps =>
          \A f \in StatFields :
              Incoming(last.input, f) = NaN =>
                  Stored(simulation, f) = Stored(prev.simulation, f)
    /\ \A f \in StatFields : simulation.statistics[f] \notin {NaN, Str("NaN")}

\* the two-decimal form of a statistic value: 85 and '85' are '85.00', and
\* a string that already has two decimals is itself
TwoDecimals(v) ==
    CASE v.t = "number" -> Str(ToString(v.n) \o ".00")
      [] v = Str("85") -> Str("85.00")
      [] OTHER -> v

(* C17: every numeric statistic value updateSimulationStep stores is in    *)
(* the two-decimal string form: for an incoming number or numeric string   *)
(* (the number 85, the string '85') the stored field is '85.00'.           *)
C17_StatisticsTwoDecimals ==
    (last.op \in StepOps /\ ~last.threw) =>
        \A f \in StatFields :
            Incoming(last.input, f).t \in {"number", "string"} =>
                Stored(simulation, f) = TwoDecimals(Incoming(last.input, f))

Entries(sim) ==
    UNION { { Stored(sim, f)[i] : i \in 1..Len(Stored(sim, f)) } : f \in ArrayFields }
    \cup (IF sim.queues.runningProcess = Null THEN {} ELSE {sim.queues.runningProcess})

(* C19: within a snapshot the ids synthesized for processes that lacked an *)
(* id are non-empty and collide neither with each other nor with a         *)
(* supplied id: two entries that share a synthesized id are the same       *)
(* process.                                                                *)
C19_SynthesizedIdsDistinct ==
    \A e1 \in Entries(simulation) :
        /\ e1.id # ""
        /\ \A e2 \in Entries(simulation) :
              (e1.id \in SynthIds /\ e1.id = e2.id) => e1.name = e2.name

(* C20: a process's id is assigned once and never changes: a process that  *)
(* a later updateSimulationStep (or the process editor) reports again      *)
(* keeps the id the process list already holds for it, also when its       *)
(* producer omits the id every time.                                       *)
C20_IdAssignedOnce ==
    last.op \in StepOps \cup {"setProcesses"} =>
        \A i \in 1..Len(prev.simulation.processes) :
            \A j \in 1..Len(simulation.processes) :
                prev.simulation.processes[i].name = simulation.processes[j].name
                    => prev.simulation.processes[i].id = simulation.processes[j].id

(* C21: a process id moves to the completed partition once and for good:   *)
(* an id in completedProcesses is still there after every later step until *)
(* a reset, and it is not in the ready queue, the running slot or the      *)
(* waiting queue.                                                          *)
C21_CompletedIsFinal ==
    /\ last.op \in StepOps =>
          IdsOf(prev.simulation.queues.completedProcesses)
              \subseteq IdsOf(simulation.queues.completedProcesses)
    /\ \A id \in IdsOf(simulation.queues.completedProcesses) :
          /\ id \notin IdsOf(simulation.queues.readyQueue)
          /\ id \notin IdsOf(simulation.queues.waitingQueue)
          /\ simulation.queues.runningProcess # Null =>
                id # simulation.queues.runningProcess.id

(* C22: for every process a snapshot holds, remainingTime lies in          *)
(* [0, burstTime], and a process whose remainingTime is 0 has state        *)
(* `terminated`.                                                           *)
C22_RemainingTimeInRange ==
    \A e \in Entries(simulation) :
        Get(e, "remainingTime").t = "number" =>
            /\ 0 <= e.remainingTime.n
            /\ e.remainingTime.n <= e.burstTime.n
            /\ e.remainingTime.n = 0 => Get(e, "state") = Str("terminated")

(* C23: currentTime is monotonic and non-negative: no updateSimulationStep *)
(* (streamed or made by the batch path) lowers it, and it is never         *)
(* negative.                                                               *)
C23_CurrentTimeMonotonic ==
    /\ simulation.currentTime.n >= 0
    /\ last.op \in StepOps \cup {"batchResolved"} =>
          simulation.currentTime.n >= prev.simulation.currentTime.n

\* (burstTime - remainingTime) / burstTime * 100 clamped to [0, 100], and 0
\* when burstTime is 0 or undefined
ProgressOf(p) ==
    IF Get(p, "burstTime").t # "number" \/ Get(p, "burstTime") = Num(0)
    THEN 0
    ELSE LET raw == ((p.burstTime.n - p.remainingTime.n) * 100) \div p.burstTime.n
         IN  IF raw < 0 THEN 0 ELSE IF raw > 100 THEN 100 ELSE raw

(* C24: the running slot updateSimulationStep stores carries a progress    *)
(* value equal to (burstTime - remainingTime) / burstTime * 100 clamped to *)
(* [0, 100], and equal to 0 when burstTime is 0 or undefined.              *)
C24_RunningSlotProgress ==
    ( /\ last.op \in StepOps
      /\ ~last.threw
      /\ Incoming(last.input, "runningProcess").t = "process" )
    => Get(simulation.queues.runningProcess, "progress")
           = Num(ProgressOf(simulation.queues.runningProcess))

---------------------------------------------------------------------------
(* The comparison analytics, read off the insights memo.                   *)

LowerIsBetter == {"avgWaitingTime", "avgTurnaroundTime", "avgResponseTime"}
HigherIsBetter == {"cpuUtilization", "throughput"}

\* value a is strictly better than value b on metric key
Better(key, a, b) == IF key \in LowerIsBetter THEN a < b ELSE a > b

\* no run has a strictly better value than run i on metric key
IsBestOn(cd, key, i) == \A j \in 1..Len(cd) : ~Better(key, cd[j][key], cd[i][key])

(* C25: the per-metric best is the run a scan in insertion order finds     *)
(* when it replaces the current best only on a strictly better value       *)
(* (lower for the waiting, turnaround and response times, higher for       *)
(* utilization and throughput): among the runs that tie on the best value  *)
(* the earliest-inserted is reported.                                      *)
C25_FirstSeenBestPerMetric ==
    insights # Null =>
        \A key \in LowerIsBetter \cup HigherIsBetter :
            LET cd == chartData(results)
                first == CHOOSE i \in 1..Len(cd) :
                            /\ IsBestOn(cd, key, i)
                            /\ \A j \in 1..(i - 1) : ~IsBestOn(cd, key, j)
            IN  insights.bestAlgorithms[key] =
                    [ algorithm |-> cd[first].algorithmName,
                      value |-> cd[first][key] ]

\* two runs tie on the best value of a metric, a worse run came before them,
\* and the earlier of the two is the one reported
C25_Witness ==
    /\ insights # Null
    /\ \E key \in LowerIsBetter \cup HigherIsBetter :
          LET cd == chartData(results)
          IN  /\ Len(cd) = 3
              /\ ~IsBestOn(cd, key, 1)
              /\ IsBestOn(cd, key, 2)
              /\ IsBestOn(cd, key, 3)
              /\ insights.bestAlgorithms[key].algorithm = cd[2].algorithmName

\* the values the runs have on metric key
ValuesOn(cd, key) == { cd[i][key] : i \in 1..Len(cd) }

\* all runs are equal on metric key
Degenerate(cd, key) == Cardinality(ValuesOn(cd, key)) = 1

\* the share of metric key in the score of a run whose value is v, with
\* lo and hi the least and the greatest value over all runs
ExpectedShare(cd, key, v) ==
    LET lo == CHOOSE x \in ValuesOn(cd, key) : \A y \in ValuesOn(cd, key) : x <= y
        hi == CHOOSE x \in ValuesOn(cd, key) : \A y \in ValuesOn(cd, key) : x >= y
    IN  IF hi = lo
        THEN Frac(0, 1)
        ELSE IF key \in HigherIsBetter
             THEN Frac(v - lo, hi - lo)
             ELSE Frac(hi - v, hi - lo)

ExpectedScore(cd, a) ==
    FracAdd(FracAdd(FracAdd(FracAdd(
        ExpectedShare(cd, "cpuUtilization", a.cpuUtilization),
        ExpectedShare(cd, "avgWaitingTime", a.avgWaitingTime)),
        ExpectedShare(cd, "avgTurnaroundTime", a.avgTurnaroundTime)),
        ExpectedShare(cd, "avgResponseTime", a.avgResponseTime)),
        ExpectedShare(cd, "throughput", a.throughput))

\* the chart item of the run an entry of weightedScores stands for
ItemOf(cd, w) == cd[CHOOSE i \in 1..Len(cd) : cd[i].algorithm = w.algorithm]

(* C26: in the overall score each metric contributes (value - min) /       *)
(* (max - min) when higher is better and 1 minus that when lower is        *)
(* better, min and max being taken over all runs; a metric on which all    *)
(* runs are equal (max = min) contributes 0 to every run's score.          *)
C26_ScoreIsSumOfShares ==
    insights # Null =>
        \A i \in 1..Len(insights.weightedScores) :
            insights.weightedScores[i].score =
                ExpectedScore(chartData(results),
                              ItemOf(chartData(results), insights.weightedScores[i]))

\* runs that are equal on some metrics and differ on others, and whose
\* scores differ
C26_Witness ==
    /\ insights # Null
    /\ \E key \in LowerIsBetter \cup HigherIsBetter : Degenerate(chartData(results), key)
    /\ \E key \in LowerIsBetter \cup HigherIsBetter : ~Degenerate(chartData(results), key)
    /\ \E i, j \in 1..Len(insights.weightedScores) :
          insights.weightedScores[i].score # insights.weightedScores[j].score

(* C27: with fewer than two stored runs (none, or exactly one) the         *)
(* analytics report insufficient data: the insights memo is null, so there *)
(* is no per-metric best, no score and no overall winner.                  *)
C27_FewerThanTwoRunsNoInsights ==
    Len(results) < 2 => insights = Null

\* exactly one run is stored, a run having just been added
C27_Witness ==
    /\ last.op = "addResult"
    /\ Len(results) = 1
    /\ Len(chartData(results)) = 1
    /\ insights = Null

\* run b is strictly better than every other run on every metric
Dominates(cd, b) ==
    \A a \in 1..Len(cd) : \A key \in LowerIsBetter \cup HigherIsBetter :
        a # b => Better(key, cd[b][key], cd[a][key])

\* the score the memo holds for the run of a chart item
ScoreOf(item) ==
    insights.weightedScores[
        CHOOSE i \in 1..Len(insights.weightedScores) :
            insights.weightedScores[i].algorithm = item.algorithm ].score

(* C28: a run that is strictly better than every other stored run on every *)
(* metric is the per-metric best of every metric and has a strictly        *)
(* greater overall score than every other run; and for A {waiting 10,      *)
(* utilization 50} and B {waiting 5, utilization 80} B is the best for     *)
(* both metrics and score(B) > score(A).                                   *)
C28_DominantRunWins ==
    insights # Null =>
        LET cd == chartData(results)
        IN  /\ \A b \in 1..Len(cd) :
                  Dominates(cd, b) =>
                      /\ \A key \in LowerIsBetter \cup HigherIsBetter :
                            insights.bestAlgorithms[key].algorithm = cd[b].algorithmName
                      /\ \A a \in 1..Len(cd) :
                            a # b => FracLess(ScoreOf(cd[a]), ScoreOf(cd[b]))
            /\ \A a, b \in 1..Len(results) :
                  ( /\ Len(results) = 2
                    /\ results[a].statistics = ExampleA
                    /\ results[b].statistics = ExampleB )
                  => /\ insights.bestAlgorithms["avgWaitingTime"].algorithm
                            = cd[b].algorithmName
                     /\ insights.bestAlgorithms["cpuUtilization"].algorithm
                            = cd[b].algorithmName
                     /\ FracLess(ScoreOf(cd[a]), ScoreOf(cd[b]))

\* the run inserted last of three is strictly better than the two others
\* on every metric
C28_Witness ==
    /\ insights # Null
    /\ Len(chartData(results)) = 3
    /\ Dominates(chartData(results), 3)
    /\ insights.overallBest.algorithm = results[3].algorithm

\* the place of an entry of weightedScores in the stored insertion order
PlaceOf(cd, w) == CHOOSE i \in 1..Len(cd) : cd[i].algorithm = w.algorithm

MetricCount == Cardinality(LowerIsBetter \cup HigherIsBetter)

(* C29: the overall winner is the first run of the list sorted by          *)
(* descending total score: no run has a greater score, runs with equal     *)
(* scores keep their insertion order, and the score shown for a run is     *)
(* score / metricCount * 100.                                              *)
C29_WinnerIsFirstOfStableSort ==
    insights # Null =>
        LET cd == chartData(results)
            ws == insights.weightedScores
        IN  /\ Len(ws) = Len(cd)
            /\ { ws[i].algorithm : i \in 1..Len(ws) }
                   = { cd[i].algorithm : i \in 1..Len(cd) }
            /\ insights.overallBest = ws[1]
            /\ \A i \in 1..Len(ws) : ~FracLess(insights.overallBest.score, ws[i].score)
            /\ \A i, j \in 1..Len(ws) :
                  i < j =>
                      /\ ~FracLess(ws[i].score, ws[j].score)
                      /\ ws[i].score = ws[j].score =>
                            PlaceOf(cd, ws[i]) < PlaceOf(cd, ws[j])
            /\ \A i \in 1..Len(ws) :
                  overallScore(insights, ws[i].algorithm).n * ws[i].score.d * MetricCount
                      = ws[i].score.n * 100 * overallScore(insights, ws[i].algorithm).d

\* the run inserted last wins, ahead of two runs that tie with each other
C29_Witness ==
    /\ insights # Null
    /\ Len(insights.weightedScores) = 3
    /\ insights.overallBest.algorithm = results[3].algorithm
    /\ insights.weightedScores[2].score = insights.weightedScores[3].score
    /\ insights.weightedScores[2].algorithm = results[1].algorithm
    /\ FracLess(insights.weightedScores[2].score, insights.overallBest.score)

(* C30: setAlgorithm(id, config) takes effect in every lifecycle status:   *)
(* afterwards algorithm = id and algorithmConfig = config, and the time,   *)
(* the processes, the queues, the statistics, the detailed metrics and the *)
(* status are what they were.                                              *)
C30_SetAlgorithmFrame ==
    last.op = "setAlgorithm" =>
        /\ simulation.algorithm = last.input.algorithm
        /\ simulation.algorithmConfig = last.input.config
        /\ simulation.currentTime = prev.simulation.currentTime
        /\ simulation.processes = prev.simulation.processes
        /\ simulation.queues = prev.simulation.queues
        /\ simulation.statistics = prev.simulation.statistics
        /\ simulation.detailedMetrics = prev.simulation.detailedMetrics
        /\ simulation.status = prev.simulation.status

\* an algorithm with a configuration has just been selected while running
C30_Witness ==
    /\ last.op = "setAlgorithm"
    /\ prev.simulation.status = "running"
    /\ simulation.status = "running"
    /\ simulation.algorithm = "RR"
    /\ prev.simulation.algorithm # "RR"
    /\ simulation.algorithmConfig # EmptyObj

(* C31: setStatus(s) validates no transition: from every status and for    *)
(* every s the status afterwards is s, and every other snapshot field is   *)
(* what it was.                                                            *)
C31_SetStatusFrame ==
    last.op = "setStatus" =>
        simulation = [prev.simulation EXCEPT !.status = last.input.s]

\* a completed simulation has just been set back to paused
C31_Witness ==
    /\ last.op = "setStatus"
    /\ prev.simulation.status = "completed"
    /\ simulation.status = "paused"

(* C32: clearResults removes every stored result: the registry is empty    *)
(* after it whatever it held, and an addResult on the emptied registry     *)
(* leaves exactly that one entry.                                          *)
C32_ClearEmptiesRegistry ==
    /\ last.op = "clearResults" => results = << >>
    /\ (last.op = "addResult" /\ prev.results = << >>) => results = <<last.input>>

\* a registry holding several results has just been cleared
C32_Witness ==
    /\ last.op = "clearResults"
    /\ Len(prev.results) >= 2
    /\ results = << >>

(* C33: updateSimulationStep tolerates duplicate events: delivering a step *)
(* event whose processes all carry ids twice in succession leaves the      *)
(* snapshot that delivering it once leaves.                                *)
C33_DuplicateStepIdempotent ==
    (last.op \in StepOps /\ Idless(last.input) = {}) =>
        \A rnd \in [Idless(last.input) -> SynthIds] :
            updateSimulationStep(simulation, last.input, rnd) = simulation

\* a full step event has just been delivered to a snapshot that already was
\* the result of delivering it
C33_Witness ==
    /\ last.op \in StepOps
    /\ last.input = FullA
    /\ prev.simulation # initialState
    /\ \E rnd \in [Idless(FullA) -> SynthIds] :
          prev.simulation = updateSimulationStep(initialState, FullA, rnd)
    /\ simulation = prev.simulation

(* C36: updateSimulationStep never changes the lifecycle status, the       *)
(* selected algorithm or the algorithm configuration, whatever the partial *)
(* update contains.                                                        *)
C36_StepKeepsLifecycle ==
    last.op \in StepOps =>
        /\ simulation.status = prev.simulation.status
        /\ simulation.algorithm = prev.simulation.algorithm
        /\ simulation.algorithmConfig = prev.simulation.algorithmConfig

\* a payload carrying status, algorithm and algorithmConfig was applied to a
\* paused snapshot and stored its time only
C36_Witness ==
    /\ last.op \in StepOps
    /\ last.input = Foreign
    /\ prev.simulation.status = "paused"
    /\ simulation.currentTime = Num(2)
    /\ simulation # prev.simulation

(* C37: detailed metrics are merged as one unit: when the statistics of an *)
(* update carry at least one detailed-metric key, the stored               *)
(* detailedMetrics becomes exactly the detailed keys of that update, and   *)
(* when they carry none, detailedMetrics is unchanged.                     *)
C37_DetailedMergedAsUnit ==
    last.op \in StepOps =>
        IF \E k \in DetailKeys : OptGet(last.input, "statistics", k) # Undefined
        THEN /\ DOMAIN simulation.detailedMetrics =
                  {k \in DetailKeys : OptGet(last.input, "statistics", k) # Undefined}
             /\ \A k \in DOMAIN simulation.detailedMetrics :
                  simulation.detailedMetrics[k] = last.input.statistics[k]
        ELSE simulation.detailedMetrics = prev.simulation.detailedMetrics

\* the metrics on which the runs of cd do not all have the same value
Differing(cd) == { key \in LowerIsBetter \cup HigherIsBetter : ~Degenerate(cd, key) }

\* the fraction x lies between the integers lo and hi
FracWithin(x, lo, hi) == lo * x.d <= x.n /\ x.n <= hi * x.d

(* C38: for two or more runs (all metric values of the runs are numeric)   *)
(* each run's overall score lies between 0 and the number of metrics and   *)
(* its displayed percentage between 0 and 100; with exactly two runs the   *)
(* two scores sum to the number of metrics on which the runs differ.       *)
C38_ScoreBounds ==
    insights # Null =>
        /\ \A i \in 1..Len(insights.weightedScores) :
              /\ FracWithin(insights.weightedScores[i].score, 0, MetricCount)
              /\ FracWithin(overallScore(insights, insights.weightedScores[i].algorithm),
                            0, 100)
        /\ Len(insights.weightedScores) = 2 =>
              FracAdd(insights.weightedScores[1].score,
                      insights.weightedScores[2].score)
                  = Frac(Cardinality(Differing(chartData(results))), 1)

\* two runs that differ on three metrics, each the better one on some of
\* them: the scores are 2 and 1
C38_Witness ==
    /\ insights # Null
    /\ Len(results) = 2
    /\ Cardinality(Differing(chartData(results))) = 3
    /\ insights.weightedScores[1].score = Frac(2, 1)
    /\ insights.weightedScores[2].score = Frac(1, 1)

\* the entries of the registry stored by the operation performed last
StoredNow == { i \in 1..Len(results) : results[i].timestamp = nops - 1 }

(* C34: the run result stored on completion carries the algorithm the run  *)
(* was started with, also when setAlgorithm is called between the start of *)
(* the run and its completion, on the streamed path and on the batch path. *)
C34_ResultCarriesStartedAlgorithm ==
    /\ ( /\ last.op = "onSimulationCompleted"
         /\ runs.streamed # Null
         /\ runs.streamed.sock = last.sock )
       => \A i \in StoredNow : results[i].algorithm = runs.streamed.algorithm
    /\ (last.op = "batchResolved" /\ prev.runs.batch # Null)
       => \A i \in StoredNow : results[i].algorithm = prev.runs.batch.algorithm

\* the operation performed last delivered the output of a run that was
\* started before the store was reset, no run having been started since
StaleDelivery ==
    \/ /\ last.op \in {"onSimulationStep", "onSimulationCompleted"}
       /\ prev.runs.streamed # Null
       /\ prev.runs.streamed.stale
       /\ prev.runs.streamed.sock = last.sock
       /\ (prev.runs.batch = Null \/ prev.runs.batch.stale)
    \/ /\ last.op = "batchResolved"
       /\ prev.runs.batch # Null
       /\ prev.runs.batch.stale
       /\ (prev.runs.streamed = Null \/ prev.runs.streamed.stale)

(* C35: after a reset the snapshot stays as it is until the user starts a  *)
(* new run: a batch response or a streamed step or completed event of a    *)
(* run started before the reset does not modify the snapshot and does not  *)
(* set the status to completed.                                            *)
C35_StaleRunIgnored ==
    StaleDelivery => simulation = prev.simulation

\* the controls' operations, the client command each of them calls being
\* their input ("none": the handler returned before calling one)
ControlOps ==
    {"handleStartRealTimeSimulation", "pauseSimulation", "resumeSimulation",
     "stepSimulation", "handleReset", "handleSimSpeedChange", "increaseSpeed",
     "decreaseSpeed"}

\* the client commands and the event each of them emits
CommandEvent ==
    [ startSimulation |-> "start-simulation",
      pauseSimulation |-> "pause-simulation",
      resumeSimulation |-> "resume-simulation",
      stepSimulation |-> "step-simulation",
      resetSimulation |-> "reset-simulation",
      changeTickSpeed |-> "change-tick-speed" ]

\* the operation performed last called a client command
CommandCalled == last.op \in ControlOps /\ last.input.s \in DOMAIN CommandEvent

(* C39: every client command of the streaming channel (startSimulation,    *)
(* pauseSimulation, resumeSimulation, stepSimulation, resetSimulation,     *)
(* changeTickSpeed) throws and emits nothing when no channel is live, that *)
(* is before the first initializeSocket and after every cleanupSocket;     *)
(* when a channel is live it emits exactly one message, on that channel.   *)
C39_CommandNeedsLiveChannel ==
    CommandCalled =>
        IF prev.socket = 0
        THEN last.threw /\ emitted = << >>
        ELSE /\ ~last.threw
             /\ Len(emitted) = 1
             /\ emitted[1].sock = prev.socket
             /\ emitted[1].sock \in connected
             /\ emitted[1].event = CommandEvent[last.input.s]

\* a command called after cleanupSocket, the socket having been created
\* before: it threw and emitted nothing
C39_Witness ==
    /\ CommandCalled
    /\ created > 0
    /\ socket = 0
    /\ last.threw
    /\ emitted = << >>

(* C40: the controls gate the client commands on the local lifecycle       *)
(* status: pause is emitted only when the status is running, resume and    *)
(* step only when it is paused, the real-time start and reset never when   *)
(* it is running, and changeTickSpeed only when it is running or paused.   *)
C40_CommandsGatedOnStatus ==
    \A i \in 1..Len(emitted) :
        /\ emitted[i].event = "pause-simulation" => prev.simulation.status = "running"
        /\ emitted[i].event \in {"resume-simulation", "step-simulation"}
              => prev.simulation.status = "paused"
        /\ emitted[i].event \in {"start-simulation", "reset-simulation"}
              => prev.simulation.status # "running"
        /\ emitted[i].event = "change-tick-speed"
              => prev.simulation.status \in {"running", "paused"}

\* a pause was emitted on the live channel while the status was running
C40_Witness ==
    /\ last.op = "pauseSimulation"
    /\ Len(emitted) = 1
    /\ emitted[1].event = "pause-simulation"
    /\ prev.simulation.status = "running"
    /\ simulation.status = "running"

====
